---- MODULE Spec2Model ----
(***************************************************************************)
(* A model of myftpserver.py: the per-connection session loop              *)
(* (handle_connected_client), the data-connection helper                   *)
(* (connect_to_client), the acceptor (start_ftp_server), and the parts of  *)
(* the operating system the handlers act on: a file tree with a            *)
(* process-wide working directory.                                         *)
(*                                                                         *)
(* Text (messages, arguments, paths) is a sequence of one-character        *)
(* strings, so that the regular expression, str.strip, str.split,          *)
(* os.path.join, the substring test and str.removeprefix are computed      *)
(* character by character as the code computes them.  Paths follow POSIX   *)
(* (posixpath.join, '/' as the only separator the kernel knows).           *)
(***************************************************************************)
EXTENDS Naturals, Sequences, FiniteSets, TLC

(***************************************************************************)
(* Bounds of the model.                                                    *)
(***************************************************************************)
\* the longest upload, in chunks received on the data connection
MaxLen == 2

(***************************************************************************)
(* Characters and words.                                                   *)
(***************************************************************************)
UPPER == {"A","B","C","D","E","F","G","H","I","J","K","L","M",
          "N","O","P","Q","R","S","T","U","V","W","X","Y","Z"}
DIGITS == {"0","1","2","3","4","5","6","7","8","9"}
\* the white space str.strip removes and \s matches
WS == {" ", "\t", "\r", "\n"}

SPACE == <<" ">>
CRLF == <<"\r", "\n">>
None == <<"None">>

OPTS == <<"O","P","T","S">>
USER == <<"U","S","E","R">>
PASS == <<"P","A","S","S">>
QUIT == <<"Q","U","I","T">>
XPWD == <<"X","P","W","D">>
CWD == <<"C","W","D">>
DELE == <<"D","E","L","E">>
PORT == <<"P","O","R","T">>
RETR == <<"R","E","T","R">>
STOR == <<"S","T","O","R">>
LIST == <<"L","I","S","T">>
UTF8 == <<"U","T","F","8">>
guest == <<"g","u","e","s","t">>

\* as SUPPORTED_COMMANDS, with LIST taken for a verb the server implements
SUPPORTED_COMMANDS_AND_LIST ==
    {OPTS, USER, PASS, QUIT, XPWD, CWD, DELE, PORT, RETR, STOR, LIST}

SUPPORTED_COMMANDS == {OPTS, USER, PASS, QUIT, XPWD, CWD, DELE, PORT, RETR, STOR}

\* the directory the server was started in (os.getcwd() at import)
BASE_PATH == <<"/","r">>

(***************************************************************************)
(* Python string operations.                                               *)
(***************************************************************************)
\* s[n:]
Drop(s, n) == IF n >= Len(s) THEN <<>> ELSE SubSeq(s, n + 1, Len(s))

\* s[:n]
Take(s, n) == IF n >= Len(s) THEN s ELSE SubSeq(s, 1, n)

startswith(s, p) == Len(p) <= Len(s) /\ SubSeq(s, 1, Len(p)) = p

endswith(s, p) == Len(p) <= Len(s) /\ SubSeq(s, Len(s) - Len(p) + 1, Len(s)) = p

\* p in s, for strings
contains(s, p) == \E i \in 0..(Len(s) - Len(p)) : SubSeq(s, i + 1, i + Len(p)) = p

removeprefix(s, p) == IF startswith(s, p) THEN Drop(s, Len(p)) ELSE s

RECURSIVE lstrip(_)
lstrip(s) == IF s # <<>> /\ Head(s) \in WS THEN lstrip(Tail(s)) ELSE s

RECURSIVE rstrip(_)
rstrip(s) == IF s # <<>> /\ s[Len(s)] \in WS THEN rstrip(Take(s, Len(s) - 1)) ELSE s

strip(s) == rstrip(lstrip(s))

\* s.split(sep) for a one-character sep: always at least one piece
RECURSIVE split(_, _)
split(s, sep) ==
    IF \A i \in 1..Len(s) : s[i] # sep
    THEN <<s>>
    ELSE LET i == CHOOSE k \in 1..Len(s) : s[k] = sep /\ \A j \in 1..(k - 1) : s[j] # sep
         IN  <<Take(s, i - 1)>> \o split(Drop(s, i), sep)

\* sep.join(parts)
RECURSIVE join(_, _)
join(sep, parts) ==
    IF parts = <<>> THEN <<>>
    ELSE IF Len(parts) = 1 THEN parts[1]
    ELSE parts[1] \o sep \o join(sep, Tail(parts))

(***************************************************************************)
(* re.findall('^[A-Z]{3,4}(?=\s?)|(?<=\s).+', message): the matches, left  *)
(* to right.  The first alternative matches only at the start (three or    *)
(* four capitals, four when there are four; the lookahead always holds);   *)
(* the second matches, right after a white-space character, the rest of    *)
(* the line ('.' stops before a line feed).                                *)
(***************************************************************************)
VerbLen(m) ==
    IF Len(m) >= 4 /\ \A i \in 1..4 : m[i] \in UPPER THEN 4
    ELSE IF Len(m) >= 3 /\ \A i \in 1..3 : m[i] \in UPPER THEN 3
    ELSE 0

\* the last index of the run of non-line-feed characters that starts at p
RECURSIVE LineEnd(_, _)
LineEnd(m, p) == IF p < Len(m) /\ m[p + 1] # "\n" THEN LineEnd(m, p + 1) ELSE p

RECURSIVE findallFrom(_, _)
findallFrom(m, pos) ==
    IF pos > Len(m) THEN <<>>
    ELSE IF pos = 1 /\ VerbLen(m) > 0
         THEN <<Take(m, VerbLen(m))>> \o findallFrom(m, VerbLen(m) + 1)
    ELSE IF pos >= 2 /\ m[pos - 1] \in WS /\ m[pos] # "\n"
         THEN <<SubSeq(m, pos, LineEnd(m, pos))>> \o findallFrom(m, LineEnd(m, pos) + 1)
    ELSE findallFrom(m, pos + 1)

findall(m) == findallFrom(m, 1)

(***************************************************************************)
(* posixpath.join: a component that starts with '/' replaces what came     *)
(* before it; otherwise it is appended after one '/'.                      *)
(***************************************************************************)
join2(a, b) ==
    IF startswith(b, <<"/">>) THEN b
    ELSE IF a = <<>> \/ endswith(a, <<"/">>) THEN a \o b
    ELSE a \o <<"/">> \o b

\* the "fully qualified absolute path" of CWD, DELE, RETR and STOR
AbsPath(cur, arg) ==
    IF Take(arg, 1) \in {<<"/">>, <<"\\">>}
    THEN join2(BASE_PATH, Drop(arg, 1))
    ELSE join2(join2(BASE_PATH, Drop(cur, 1)), arg)

(***************************************************************************)
(* The file tree.  A node is the sequence of its names from '/'.  The      *)
(* directories are fixed (no command makes or removes one): '/', the       *)
(* server root '/r' with a subdirectory 'a', and '/rx', a directory beside *)
(* the root whose path starts with the root's.                             *)
(***************************************************************************)
Dirs == { <<>>, << <<"r">> >>, << <<"r">>, <<"a">> >>, << <<"r","x">> >> }

BaseNode == << <<"r">> >>

Parent(node) == IF node = <<>> THEN <<>> ELSE Take(node, Len(node) - 1)

\* the kernel's walk of an absolute path: '' and '.' stay, '..' goes up, a
\* name goes down; a step from a node that is no directory fails
RECURSIVE Walk(_, _)
Walk(comps, at) ==
    IF comps = <<>> THEN [ok |-> TRUE, node |-> at]
    ELSE IF at \notin Dirs THEN [ok |-> FALSE, node |-> at]
    ELSE LET c == Head(comps)
         IN  IF c = <<>> \/ c = <<".">> THEN Walk(Tail(comps), at)
             ELSE IF c = <<".", ".">> THEN Walk(Tail(comps), Parent(at))
             ELSE Walk(Tail(comps), Append(at, c))

Resolve(path) == Walk(split(path, "/"), <<>>)

\* the path os.getcwd() returns for a directory
Render(node) == IF node = <<>> THEN <<"/">> ELSE <<"/">> \o join(<<"/">>, node)

IsDirPath(path) == Resolve(path).ok /\ Resolve(path).node \in Dirs


(***************************************************************************)
(* State.                                                                  *)
(*   session[s]  the locals of handle_connected_client in the thread of    *)
(*               connection s, with its place in the loop (pc), the        *)
(*               replies sent for the message read last (out), what        *)
(*               connect_to_client did for it (attempt), the bytes sent on *)
(*               and received from its data connection (sent, rcvd), the   *)
(*               directory its own                                         *)
(*               os.chdir reached (chdir_to) and its open upload file      *)
(*               (wbuf: written and still buffered, wpos: file offset)     *)
(*   cwd         the working directory of the process (os.chdir/getcwd)    *)
(*   files       the regular files: node -> content and the sessions that  *)
(*               hold it open for writing                                  *)
(***************************************************************************)
VARIABLES session, cwd, files

vars == <<session, cwd, files>>

Sessions == {1, 2}

\* the bytes a client uploads
Bytes == {1, 2}

\* client_info = None (str.split never returns an empty list)
NoInfo == <<>>

FileF == << <<"r">>, <<"f">> >>
FileS == << <<"r","x">>, <<"s">> >>

InitSession ==
    [pc |-> "idle", username |-> None, password |-> None, authenticated |-> FALSE,
     current_path |-> <<"/">>, client_info |-> NoInfo, command |-> None, arg |-> None,
     file_path |-> <<>>, out |-> <<>>, attempt |-> "none", sent |-> <<>>, rcvd |-> <<>>,
     chdir_to |-> BaseNode, wbuf |-> <<>>, wpos |-> 0]

Init ==
    /\ session = [s \in Sessions |-> InitSession]
    /\ cwd = BaseNode
    /\ files = (FileF :> [data |-> <<1, 2>>, writers |-> {}])
               @@ (FileS :> [data |-> <<2>>, writers |-> {}])

(***************************************************************************)
(* Replies: the status code, the fixed text and the interpolated values.   *)
(***************************************************************************)
Reply(code, text, args) == [code |-> code, text |-> text, args |-> args]

R220 == Reply(220, "Welcome to myFTPserver!", <<>>)
R502 == Reply(502, "Command not implemented.", <<>>)
R504 == Reply(504, "Command not implemented for that argument.", <<>>)
R200 == Reply(200, "OK", <<>>)
R331 == Reply(331, "Username OK, need password.", <<>>)
R230 == Reply(230, "Login successful.", <<>>)
R530bad == Reply(530, "Not logged in. Incorrect credentials.", <<>>)
R221 == Reply(221, "Goodbye.", <<>>)
R530 == Reply(530, "Not logged in.", <<>>)
R257(path) == Reply(257, "Current directory: {current_path}", <<path>>)
R550dir(a) == Reply(550, "{arg} is not a directory.", <<a>>)
R250cwd(path) == Reply(250, "Changed directory: {current_path}", <<path>>)
R550file(a, path) == Reply(550, "{arg} does not exist in {current_path} directory.", <<a, path>>)
R250del(a) == Reply(250, "{arg} deleted.", <<a>>)
R200port == Reply(200, "Command successful.", <<>>)
R425 == Reply(425, "Can't open data connection.", <<>>)
R150 == Reply(150, "File status okay; about to begin transfer.", <<>>)
R250xfer(a) == Reply(250, "Successfully transferred {arg}.", <<a>>)
R553(a) == Reply(553, "Requested action not taken. {arg} name already taken.", <<a>>)

(***************************************************************************)
(* connect_to_client.                                                      *)
(***************************************************************************)
IsInt(w) == w # <<>> /\ \A i \in 1..Len(w) : w[i] \in DIGITS

DigitVal(c) == CHOOSE n \in 0..9 : <<"0","1","2","3","4","5","6","7","8","9">>[n + 1] = c

RECURSIVE IntOf(_)
IntOf(w) == IF w = <<>> THEN 0 ELSE 10 * IntOf(Take(w, Len(w) - 1)) + DigitVal(w[Len(w)])

\* what the network answers to a connect: the peer accepts, the peer
\* refuses (ConnectionRefusedError), or another OSError (no route, timeout)
NetAnswers == {"ok", "refused", "error"}

\* "ok": a connected socket; "refused": None; "raise": an exception leaves
\* the function (None is not subscriptable; client_info[4] out of range;
\* int() of a non-number; a port above 65535; an OSError that is not a
\* refusal)
connect_to_client(client_info, net) ==
    IF client_info = NoInfo THEN "raise"
    ELSE IF Len(client_info) < 6 THEN "raise"
    ELSE IF ~IsInt(client_info[5]) \/ ~IsInt(client_info[6]) THEN "raise"
    ELSE IF IntOf(client_info[5]) * 256 + IntOf(client_info[6]) > 65535 THEN "raise"
    ELSE IF net = "refused" THEN "refused"
    ELSE IF net = "ok" THEN "ok"
    ELSE "raise"

(***************************************************************************)
(* File operations.                                                        *)
(***************************************************************************)
\* os.path.isfile
isfile(path) == Resolve(path).ok /\ Resolve(path).node \in DOMAIN files

\* os.remove of an existing regular file
RemoveFile(fs, node) == [n \in (DOMAIN fs) \ {node} |-> fs[n]]

\* open(path, 'wb') succeeds: the name is not a directory and lies in one
OpenableForWrite(path) ==
    /\ Resolve(path).ok
    /\ Resolve(path).node \notin Dirs
    /\ Parent(Resolve(path).node) \in Dirs

\* open(path, 'wb') by session s: the file is created, or truncated
OpenForWrite(fs, node, s) ==
    IF node \in DOMAIN fs
    THEN [fs EXCEPT ![node] = [data |-> <<>>, writers |-> @.writers \cup {s}]]
    ELSE fs @@ (node :> [data |-> <<>>, writers |-> {s}])

RECURSIVE Zeros(_)
Zeros(n) == IF n = 0 THEN <<>> ELSE <<0>> \o Zeros(n - 1)

\* write(2) of buf at offset pos: a hole before pos reads as zeros
WriteAt(data, pos, buf) ==
    IF buf = <<>> THEN data
    ELSE Take(data, pos) \o Zeros(IF pos > Len(data) THEN pos - Len(data) ELSE 0)
         \o buf \o Drop(data, pos + Len(buf))

\* as Flush, but every write starts at the beginning of the file
FlushAtStart(fs, node, s, pos, buf) ==
    IF node \in DOMAIN fs /\ s \in fs[node].writers
    THEN [fs EXCEPT ![node].data = WriteAt(@, 0, buf)]
    ELSE fs

\* session s flushes buf at pos into the file it opened at node; a file
\* removed since (and one created anew under the name) is another file
Flush(fs, node, s, pos, buf) ==
    IF node \in DOMAIN fs /\ s \in fs[node].writers
    THEN [fs EXCEPT ![node].data = WriteAt(@, pos, buf)]
    ELSE fs

CloseFile(fs, node, s) ==
    IF node \in DOMAIN fs
    THEN [fs EXCEPT ![node].writers = @ \ {s}]
    ELSE fs


(***************************************************************************)
(* The session loop.  Me(s) is session s as cnx.recv returns: no reply     *)
(* sent for this message yet, no connection attempted, nothing             *)
(* transferred, no command parsed (the command and the argument of the     *)
(* message before are never read again).                                   *)
(***************************************************************************)
Me(s) ==
    [session[s] EXCEPT !.out = <<>>, !.attempt = "none", !.sent = <<>>, !.rcvd = <<>>,
                       !.command = None, !.arg = None]

Put(s, rec) == session' = [session EXCEPT ![s] = rec]

\* start_ftp_server accepts connection s and starts its thread, which sends
\* the welcome and enters the loop
Accept(s) ==
    /\ session[s].pc = "idle"
    /\ Put(s, [session[s] EXCEPT !.pc = "recv", !.out = <<R220>>])
    /\ UNCHANGED <<cwd, files>>

\* close_cnx and connected = False, after the replies given
Closed(rec, replies) == [rec EXCEPT !.pc = "closed", !.out = replies]

\* an exception no handler catches ends the thread
Raised(rec) == [rec EXCEPT !.pc = "raised"]

\* cnx.recv raises ConnectionResetError
Reset(s) ==
    /\ session[s].pc = "recv"
    /\ Put(s, Closed(Me(s), <<>>))
    /\ UNCHANGED <<cwd, files>>

\* as NotAuthenticated, but a session that has named a user passes
NotAuthenticatedNamed(s) == ~session[s].authenticated /\ session[s].username = None

\* commands below this requires authenticated user
NotAuthenticated(s) == ~session[s].authenticated

handle_unauthenticated(rec) == Closed(rec, <<R530>>)

\* as DoOPTS, but an unsupported argument is answered 504 alone
DoOPTSOneReply(s, rec, arg) ==
    /\ Put(s, [rec EXCEPT !.out = IF startswith(arg, UTF8) THEN <<R200>> ELSE <<R504>>])
    /\ UNCHANGED <<cwd, files>>

DoOPTS(s, rec, arg) ==
    /\ Put(s, [rec EXCEPT !.out = IF startswith(arg, UTF8) THEN <<R200>> ELSE <<R504, R200>>])
    /\ UNCHANGED <<cwd, files>>

\* as DoUSER, but a new user name ends the login
DoUSERLogout(s, rec, arg) ==
    /\ Put(s, [rec EXCEPT !.username = arg, !.authenticated = FALSE, !.out = <<R331>>])
    /\ UNCHANGED <<cwd, files>>

DoUSER(s, rec, arg) ==
    /\ Put(s, [rec EXCEPT !.username = arg, !.out = <<R331>>])
    /\ UNCHANGED <<cwd, files>>

\* as CredentialsMatch, but the user name is not compared
CredentialsMatchPassword(username, password) == password = guest

CredentialsMatch(username, password) == username = guest /\ password = guest

\* as DoPASS, but a wrong password leaves a session that is logged in open
DoPASSLenient(s, rec, arg) ==
    /\ IF CredentialsMatch(rec.username, arg)
       THEN Put(s, [rec EXCEPT !.password = arg, !.authenticated = TRUE, !.out = <<R230>>])
       ELSE IF rec.authenticated
       THEN Put(s, [rec EXCEPT !.password = None, !.out = <<R530bad>>])
       ELSE Put(s, Closed([rec EXCEPT !.username = None, !.password = None,
                                      !.authenticated = FALSE], <<R530bad>>))
    /\ UNCHANGED <<cwd, files>>

DoPASS(s, rec, arg) ==
    /\ IF CredentialsMatch(rec.username, arg)
       THEN Put(s, [rec EXCEPT !.password = arg, !.authenticated = TRUE, !.out = <<R230>>])
       ELSE Put(s, Closed([rec EXCEPT !.username = None, !.password = None,
                                      !.authenticated = FALSE], <<R530bad>>))
    /\ UNCHANGED <<cwd, files>>

DoQUIT(s, rec) ==
    /\ Put(s, Closed([rec EXCEPT !.authenticated = FALSE], <<R221>>))
    /\ UNCHANGED <<cwd, files>>

DoXPWD(s, rec) ==
    /\ Put(s, [rec EXCEPT !.out = <<R257(rec.current_path)>>])
    /\ UNCHANGED <<cwd, files>>

\* as DoCWD, but a failed change sends the session back to the root
DoCWDToRoot(s, rec, arg) ==
    LET path == AbsPath(rec.current_path, arg)
    IN  IF IsDirPath(path)
        THEN /\ cwd' = Resolve(path).node
             /\ Put(s, [rec EXCEPT !.pc = "getcwd", !.chdir_to = Resolve(path).node])
             /\ UNCHANGED files
        ELSE /\ Put(s, [rec EXCEPT !.current_path = <<"/">>, !.out = <<R550dir(arg)>>])
             /\ UNCHANGED <<cwd, files>>

\* CWD up to os.chdir(path): the process's working directory changes, or
\* FileNotFoundError/NotADirectoryError is answered with 550
DoCWD(s, rec, arg) ==
    LET path == AbsPath(rec.current_path, arg)
    IN  IF IsDirPath(path)
        THEN /\ cwd' = Resolve(path).node
             /\ Put(s, [rec EXCEPT !.pc = "getcwd", !.chdir_to = Resolve(path).node])
             /\ UNCHANGED files
        ELSE /\ Put(s, [rec EXCEPT !.out = <<R550dir(arg)>>])
             /\ UNCHANGED <<cwd, files>>

\* prevent navigating up from the root directory
OutsideBase(navigating_path) == ~contains(navigating_path, BASE_PATH)

\* the virtual path of a working directory
VirtualPath(navigating_path) ==
    IF navigating_path = BASE_PATH THEN <<"/">> ELSE removeprefix(navigating_path, BASE_PATH)

\* CWD from os.getcwd() on: the working directory the process has now
\* becomes the session's virtual path
CwdGetcwd(s) ==
    /\ session[s].pc = "getcwd"
    /\ LET navigating_path == Render(cwd)
           escaped == OutsideBase(navigating_path)
           current_path == VirtualPath(IF escaped THEN BASE_PATH ELSE navigating_path)
       IN  /\ cwd' = IF escaped THEN BaseNode ELSE cwd
           /\ Put(s, [session[s] EXCEPT !.pc = "recv", !.current_path = current_path,
                                        !.out = <<R250cwd(current_path)>>])
    /\ UNCHANGED files

\* as DoDELE, but the file is reported removed and left in place
DoDELEKeep(s, rec, arg) ==
    LET file_path == AbsPath(rec.current_path, arg)
    IN  /\ Put(s, [rec EXCEPT !.file_path = <<>>,
                              !.out = IF isfile(file_path)
                                      THEN <<R250del(arg)>>
                                      ELSE <<R550file(arg, rec.current_path)>>])
        /\ UNCHANGED <<cwd, files>>

DoDELE(s, rec, arg) ==
    LET file_path == AbsPath(rec.current_path, arg)
    IN  IF ~isfile(file_path)
        THEN /\ Put(s, [rec EXCEPT !.file_path = <<>>,
                                   !.out = <<R550file(arg, rec.current_path)>>])
             /\ UNCHANGED <<cwd, files>>
        ELSE /\ files' = RemoveFile(files, Resolve(file_path).node)
             /\ Put(s, [rec EXCEPT !.file_path = <<>>, !.out = <<R250del(arg)>>])
             /\ UNCHANGED cwd

DoPORT(s, rec, arg) ==
    /\ Put(s, [rec EXCEPT !.client_info = split(arg, ","), !.out = <<R200port>>])
    /\ UNCHANGED <<cwd, files>>

\* as DoRETR, but the data connection is made before the file is looked for
DoRETRConnectFirst(s, rec, arg, net) ==
    LET file_path == AbsPath(rec.current_path, arg)
        data_socket == connect_to_client(rec.client_info, net)
    IN  /\ IF data_socket = "raise"
           THEN Put(s, Raised([rec EXCEPT !.file_path = file_path, !.attempt = "raise"]))
           ELSE IF data_socket = "refused"
           THEN Put(s, [rec EXCEPT !.file_path = file_path, !.attempt = "refused",
                                   !.out = <<R425>>])
           ELSE IF ~isfile(file_path)
           THEN Put(s, [rec EXCEPT !.file_path = <<>>, !.attempt = "ok",
                                   !.out = <<R550file(arg, rec.current_path)>>])
           ELSE Put(s, [rec EXCEPT !.file_path = <<>>, !.attempt = "ok",
                                   !.sent = files[Resolve(file_path).node].data,
                                   !.client_info = NoInfo,
                                   !.out = <<R150, R250xfer(arg)>>])
        /\ UNCHANGED <<cwd, files>>

DoRETR(s, rec, arg, net) ==
    LET file_path == AbsPath(rec.current_path, arg)
        data_socket == connect_to_client(rec.client_info, net)
    IN  /\ IF ~isfile(file_path)
           THEN Put(s, [rec EXCEPT !.file_path = <<>>,
                                   !.out = <<R550file(arg, rec.current_path)>>])
           ELSE IF data_socket = "raise"
           THEN Put(s, Raised([rec EXCEPT !.file_path = file_path, !.attempt = "raise"]))
           ELSE IF data_socket = "refused"
           THEN Put(s, [rec EXCEPT !.file_path = file_path, !.attempt = "refused",
                                   !.out = <<R425>>])
           ELSE Put(s, [rec EXCEPT !.file_path = <<>>, !.attempt = "ok",
                                   !.sent = files[Resolve(file_path).node].data,
                                   !.client_info = NoInfo,
                                   !.out = <<R150, R250xfer(arg)>>])
        /\ UNCHANGED <<cwd, files>>

\* as DoSTOR, but without the existence test
DoSTORUnchecked(s, rec, arg, net) ==
    LET file_path == AbsPath(rec.current_path, arg)
        data_socket == connect_to_client(rec.client_info, net)
    IN  /\ IF data_socket = "raise"
           THEN Put(s, Raised([rec EXCEPT !.file_path = file_path, !.attempt = "raise"]))
           ELSE IF data_socket = "refused"
           THEN Put(s, [rec EXCEPT !.file_path = file_path, !.attempt = "refused",
                                   !.out = <<R425>>])
           ELSE Put(s, [rec EXCEPT !.file_path = file_path, !.attempt = "ok",
                                   !.pc = "open", !.out = <<R150>>])
        /\ UNCHANGED <<cwd, files>>

\* STOR up to the 150 reply: the existence test, then the data connection
DoSTOR(s, rec, arg, net) ==
    LET file_path == AbsPath(rec.current_path, arg)
        data_socket == connect_to_client(rec.client_info, net)
    IN  /\ IF isfile(file_path)
           THEN Put(s, [rec EXCEPT !.file_path = <<>>, !.out = <<R553(arg)>>])
           ELSE IF data_socket = "raise"
           THEN Put(s, Raised([rec EXCEPT !.file_path = file_path, !.attempt = "raise"]))
           ELSE IF data_socket = "refused"
           THEN Put(s, [rec EXCEPT !.file_path = file_path, !.attempt = "refused",
                                   !.out = <<R425>>])
           ELSE Put(s, [rec EXCEPT !.file_path = file_path, !.attempt = "ok",
                                   !.pc = "open", !.out = <<R150>>])
        /\ UNCHANGED <<cwd, files>>

\* STOR: open(file_path, 'wb') creates or truncates the file, or raises
\* (IsADirectoryError, FileNotFoundError)
StorOpen(s) ==
    /\ session[s].pc = "open"
    /\ IF OpenableForWrite(session[s].file_path)
       THEN /\ files' = OpenForWrite(files, Resolve(session[s].file_path).node, s)
            /\ Put(s, [session[s] EXCEPT !.pc = "write", !.wbuf = <<>>, !.wpos = 0])
       ELSE /\ Put(s, Raised(session[s]))
            /\ UNCHANGED files
    /\ UNCHANGED cwd

\* STOR: data_socket.recv returns a chunk, file.write buffers it; whether
\* the buffer is written through now depends on the sizes of the chunks and
\* of the buffer
StorChunk(s, b, through) ==
    /\ session[s].pc = "write"
    /\ session[s].wpos + Len(session[s].wbuf) < MaxLen
    /\ LET buf == Append(session[s].wbuf, b)
           node == Resolve(session[s].file_path).node
       IN  IF through
           THEN /\ files' = Flush(files, node, s, session[s].wpos, buf)
                /\ Put(s, [session[s] EXCEPT !.wbuf = <<>>, !.wpos = @ + Len(buf),
                                             !.rcvd = Append(@, b)])
           ELSE /\ Put(s, [session[s] EXCEPT !.wbuf = buf, !.rcvd = Append(@, b)])
                /\ UNCHANGED files
    /\ UNCHANGED cwd

\* STOR: recv returns no data: the data socket and the file are closed (the
\* buffer is flushed) and the transfer is acknowledged
StorEnd(s) ==
    /\ session[s].pc = "write"
    /\ LET node == Resolve(session[s].file_path).node
       IN  files' = CloseFile(Flush(files, node, s, session[s].wpos, session[s].wbuf), node, s)
    /\ Put(s, [session[s] EXCEPT !.pc = "recv", !.wbuf = <<>>, !.wpos = 0, !.file_path = <<>>,
                                 !.out = Append(@, R250xfer(session[s].arg))])
    /\ UNCHANGED cwd

\* the command and the argument of a message: split_message[0], and
\* split_message[1].strip() or ''
CommandOf(message) == findall(message)[1]

ArgOf(message) == IF Len(findall(message)) >= 2 THEN strip(findall(message)[2]) ELSE <<>>

Dispatch(s, rec, command, arg) ==
    IF command \notin SUPPORTED_COMMANDS
    THEN Put(s, [rec EXCEPT !.out = <<R502>>]) /\ UNCHANGED <<cwd, files>>
    ELSE IF command = OPTS THEN DoOPTS(s, rec, arg)
    ELSE IF command = USER THEN DoUSER(s, rec, arg)
    ELSE IF command = PASS THEN DoPASS(s, rec, arg)
    ELSE IF command = QUIT THEN DoQUIT(s, rec)
    ELSE IF NotAuthenticated(s)
    THEN Put(s, handle_unauthenticated(rec)) /\ UNCHANGED <<cwd, files>>
    ELSE IF command = XPWD THEN DoXPWD(s, rec)
    ELSE IF command = CWD THEN DoCWD(s, rec, arg)
    ELSE IF command = DELE THEN DoDELE(s, rec, arg)
    ELSE IF command = PORT THEN DoPORT(s, rec, arg)
    ELSE IF command = RETR THEN \E net \in NetAnswers : DoRETR(s, rec, arg, net)
    ELSE \E net \in NetAnswers : DoSTOR(s, rec, arg, net)

\* one turn of the loop: cnx.recv returns raw (nothing when the peer has
\* closed), which is decoded, stripped, split and handled up to the next
\* recv, or up to the place where the handler waits on the system
ReadLine(s, raw) ==
    /\ session[s].pc = "recv"
    /\ LET message == strip(raw)
       IN  IF message = <<>>
           THEN Put(s, Closed(Me(s), <<>>)) /\ UNCHANGED <<cwd, files>>
           ELSE IF findall(message) = <<>>
           THEN Put(s, Raised(Me(s))) /\ UNCHANGED <<cwd, files>>
           ELSE Dispatch(s, [Me(s) EXCEPT !.command = CommandOf(message),
                                          !.arg = ArgOf(message)],
                         CommandOf(message), ArgOf(message))

(***************************************************************************)
(* The messages clients send.                                              *)
(***************************************************************************)
Word(verb, arg) == verb \o SPACE \o arg

PortArg == <<"1",",","1",",","1",",","1",",","1",",","1">>

Lines ==
    { Word(USER, guest), Word(USER, <<"x">>), Word(PASS, guest), Word(PASS, <<"x">>),
      QUIT, Word(OPTS, UTF8), Word(OPTS, <<"x">>), XPWD \o CRLF,
      Word(CWD, <<"a">>), Word(CWD, <<"/","a">>), Word(CWD, <<".",".">>),
      Word(CWD, <<".",".","/","r","x">>), Word(CWD, <<"f">>),
      Word(DELE, <<"f">>), Word(PORT, PortArg),
      Word(RETR, <<"f">>), Word(RETR, <<".",".","/","r","x","/","s">>),
      Word(RETR, <<"/","n">>), Word(STOR, <<"/","n">>), Word(STOR, <<"/">>),
      LIST, <<"x">>, <<>> }

\* the messages of two clients that change directory at the same time
CwdLines ==
    { Word(USER, guest), Word(PASS, guest), XPWD \o CRLF,
      Word(CWD, <<"a">>), Word(CWD, <<"/","a">>), Word(CWD, <<".",".">>) }

\* the messages of two clients that upload to one name at the same time
StorLines ==
    { Word(USER, guest), Word(PASS, guest), Word(PORT, PortArg), Word(STOR, <<"/","n">>) }

\* one client: every message, a reset at any read
Next ==
    \E s \in {1} :
        \/ Accept(s)
        \/ \E raw \in Lines : ReadLine(s, raw)
        \/ Reset(s)
        \/ CwdGetcwd(s)
        \/ StorOpen(s)
        \/ \E b \in Bytes, through \in BOOLEAN : StorChunk(s, b, through)
        \/ StorEnd(s)

Spec == Init /\ [][Next]_vars

\* two clients log in and change directory; their threads interleave
\* wherever a handler calls the system
NextConc ==
    \E s \in Sessions :
        \/ Accept(s)
        \/ \E raw \in CwdLines : ReadLine(s, raw)
        \/ CwdGetcwd(s)

SpecConc == Init /\ [][NextConc]_vars

\* two clients log in and upload
NextStor ==
    \E s \in Sessions :
        \/ Accept(s)
        \/ \E raw \in StorLines : ReadLine(s, raw)
        \/ StorOpen(s)
        \/ \E b \in Bytes, through \in BOOLEAN : StorChunk(s, b, through)
        \/ StorEnd(s)

SpecStor == Init /\ [][NextStor]_vars


(***************************************************************************)
(* Properties.                                                             *)
(***************************************************************************)
\* session s read from its control connection in this step
Read(s) == session[s].pc = "recv" /\ session'[s] # session[s]

\* the commands that require a logged-in user
LoginCommands == {XPWD, CWD, DELE, PORT, RETR, STOR}

\* a node at or below the server root
UnderBase(node) == Take(node, Len(BaseNode)) = BaseNode

C2_VirtualPathConfined ==
    \A s \in Sessions :
        /\ startswith(session[s].current_path, <<"/">>)
        /\ UnderBase(Resolve(BASE_PATH \o session[s].current_path).node)
        /\ (session[s].pc = "recv" /\ session[s].command = CWD
              /\ ~UnderBase(session[s].chdir_to) /\ session[s].out # <<R550dir(session[s].arg)>>)
           => session[s].current_path = <<"/">>

\* C3: the path DELE, RETR or STOR tests, removes, reads or writes names a
\* node at or below the server root.
C3_FileOpsConfined ==
    [][\A s \in Sessions :
         (Read(s) /\ session[s].authenticated /\ session'[s].command \in {DELE, RETR, STOR})
         => UnderBase(Resolve(AbsPath(session[s].current_path, session'[s].arg)).node)]_vars

\* C4: a PASS whose user name and password are not guest/guest, in a session
\* logged in or not, is answered with '530 Not logged in. Incorrect
\* credentials.' and closes the session; a closed session reads nothing,
\* executes nothing and replies nothing more.
C4_FailedPassFatal ==
    [][\A s \in Sessions :
         /\ (Read(s) /\ session'[s].command = PASS
               /\ ~(session[s].username = guest /\ session'[s].arg = guest))
            => /\ session'[s].out = <<R530bad>>
               /\ session'[s].pc = "closed"
               /\ ~session'[s].authenticated
         /\ session[s].pc = "closed" => session'[s] = session[s]]_vars

\* a session that had logged in and changed directory, closed by a wrong PASS
C4_Witness ==
    \E s \in Sessions :
        /\ session[s].command = PASS
        /\ session[s].out = <<R530bad>>
        /\ session[s].pc = "closed"
        /\ session[s].current_path = <<"/","a">>

\* C5: a session becomes authenticated only by a PASS with the argument
\* guest while the recorded user name is guest, which is answered with 230
\* (the current path is then '/'); USER records its argument, replies 331
\* and never changes the authentication; a PASS with no user name recorded
\* fails; XPWD in a logged-in session replies 257 with the current path.
C5_LoginOnlyByPass ==
    [][\A s \in Sessions :
         /\ (~session[s].authenticated /\ session'[s].authenticated)
            => /\ session'[s].command = PASS
               /\ session'[s].arg = guest
               /\ session[s].username = guest
               /\ session'[s].out = <<R230>>
               /\ session'[s].current_path = <<"/">>
         /\ (Read(s) /\ session'[s].command = USER)
            => /\ session'[s].out = <<R331>>
               /\ session'[s].username = session'[s].arg
               /\ session'[s].authenticated = session[s].authenticated
               /\ session'[s].pc = "recv"
         /\ (Read(s) /\ session'[s].command = PASS /\ session[s].username = None)
            => /\ ~session'[s].authenticated
               /\ session'[s].pc = "closed"
         /\ (Read(s) /\ session[s].authenticated /\ session'[s].command = XPWD)
            => session'[s].out = <<R257(session[s].current_path)>>]_vars

\* USER guest, PASS guest, XPWD: 257 Current directory: /
C5_Witness ==
    \E s \in Sessions :
        /\ session[s].authenticated
        /\ session[s].username = guest
        /\ session[s].command = XPWD
        /\ session[s].out = <<R257(<<"/">>)>>

\* C6: no exception leaves the session loop: a session ends only closed
\* (QUIT, a failed login, a read that returns nothing, a reset).
C6_NoFailureEscapes == \A s \in Sessions : session[s].pc # "raised"

\* C7: a message read on an open session is answered with exactly one
\* reply, or, a transfer that succeeded, with 150 and then 250.  (The two
\* replies of OPTS with an unsupported argument, which the command's own
\* description states, are granted here.)
C7_OneReplyPerLine ==
    \A s \in Sessions :
        (session[s].pc \in {"recv", "closed", "raised"}
           /\ (session[s].command # None \/ session[s].pc = "raised"))
        => \/ Len(session[s].out) = 1 /\ session[s].pc # "raised"
           \/ session[s].command \in {RETR, STOR}
                /\ session[s].out = <<R150, R250xfer(session[s].arg)>>
           \/ session[s].command = OPTS /\ session[s].out = <<R504, R200>>

\* C8: the virtual path a CWD leaves in a session is the one of the
\* directory that session's own command named, whatever other sessions do.
C8_OwnDirectory ==
    \A s \in Sessions :
        (session[s].pc = "recv" /\ session[s].command = CWD
           /\ session[s].out # <<R550dir(session[s].arg)>>)
        => session[s].current_path =
             VirtualPath(IF OutsideBase(Render(session[s].chdir_to))
                         THEN BASE_PATH ELSE Render(session[s].chdir_to))

\* C9 as claimed: STOR on a name that is a file replies 553, connects
\* nowhere and changes nothing, and the open of a STOR never finds a file
\* under the name.
C9_NeverOverwritten ==
    [][\A s \in Sessions :
         /\ (Read(s) /\ session[s].authenticated /\ session'[s].command = STOR
               /\ isfile(AbsPath(session[s].current_path, session'[s].arg)))
            => /\ session'[s].out = <<R553(session'[s].arg)>>
               /\ session'[s].attempt = "none"
               /\ files' = files
         /\ (session[s].pc = "open" /\ session'[s].pc = "write")
            => Resolve(session[s].file_path).node \notin DOMAIN files]_vars

\* C9 as amended: a STOR whose existence test finds a file replies 553 and
\* nothing else, attempts no data connection, changes no file and goes back
\* to reading.
C9_ExistingRefused ==
    [][\A s \in Sessions :
         (Read(s) /\ session[s].authenticated /\ session'[s].command = STOR
            /\ isfile(AbsPath(session[s].current_path, session'[s].arg)))
         => /\ session'[s].out = <<R553(session'[s].arg)>>
            /\ session'[s].attempt = "none"
            /\ session'[s].rcvd = <<>>
            /\ session'[s].pc = "recv"
            /\ files' = files]_vars

\* a session whose STOR found the name taken, by a file another session
\* is still writing
C9_Witness ==
    \E s \in Sessions :
        /\ session[s].command = STOR
        /\ session[s].out = <<R553(<<"/","n">>)>>
        /\ session[s].pc = "recv"
        /\ \E t \in Sessions \ {s} : session[t].pc = "write"

\* C10: a RETR of a name that is no regular file replies 550 and nothing
\* else and attempts no data connection, whatever the pending address.
C10_RetrChecksFirst ==
    [][\A s \in Sessions :
         (Read(s) /\ session[s].authenticated /\ session'[s].command = RETR
            /\ ~isfile(AbsPath(session[s].current_path, session'[s].arg)))
         => /\ session'[s].out = <<R550file(session'[s].arg, session[s].current_path)>>
            /\ session'[s].attempt = "none"
            /\ session'[s].sent = <<>>
            /\ session'[s].pc = "recv"
            /\ session'[s].client_info = session[s].client_info
            /\ files' = files]_vars

\* a RETR of a missing file with an address pending: 550, no connection
C10_Witness ==
    \E s \in Sessions :
        /\ session[s].command = RETR
        /\ session[s].out = <<R550file(<<"f">>, session[s].current_path)>>
        /\ session[s].client_info # NoInfo
        /\ session[s].attempt = "none"

\* the last command of session s was a transfer that succeeded
Transferred(rec, verb) ==
    rec.pc = "recv" /\ rec.command = verb /\ rec.out = <<R150, R250xfer(rec.arg)>>

\* C11: when a session's STOR of the bytes c has succeeded, the file holds
\* c, and a RETR of the same path that follows and succeeds sends exactly c
\* on the data connection.
C11_RoundTrip ==
    [][\A s \in Sessions :
         /\ (session[s].pc = "write" /\ session'[s].pc = "recv")
            => files'[Resolve(session[s].file_path).node].data = session'[s].rcvd
         /\ (Transferred(session[s], STOR) /\ Read(s) /\ Transferred(session'[s], RETR)
               /\ AbsPath(session[s].current_path, session'[s].arg)
                    = AbsPath(session[s].current_path, session[s].arg))
            => session'[s].sent = session[s].rcvd]_vars

\* an upload of two different bytes, one chunk each, came back as sent
C11_Witness ==
    \E s \in Sessions :
        /\ Transferred(session[s], RETR)
        /\ session[s].arg = <<"/","n">>
        /\ session[s].sent = <<1, 2>>

\* C12: a DELE of an existing regular file replies 250 and removes that
\* file and nothing else; a DELE of anything else replies 550 and changes no
\* file; so the same DELE repeated right after a successful one replies 550
\* and leaves the filesystem as it is.
C12_DeleteTwice ==
    [][\A s \in Sessions :
         /\ (Read(s) /\ session[s].authenticated /\ session'[s].command = DELE)
            => LET path == AbsPath(session[s].current_path, session'[s].arg)
                   node == Resolve(path).node
               IN  IF isfile(path)
                   THEN /\ session'[s].out = <<R250del(session'[s].arg)>>
                        /\ DOMAIN files' = DOMAIN files \ {node}
                        /\ \A n \in DOMAIN files' : files'[n] = files[n]
                   ELSE /\ session'[s].out
                             = <<R550file(session'[s].arg, session[s].current_path)>>
                        /\ files' = files
         /\ (session[s].pc = "recv" /\ session[s].command = DELE
               /\ session[s].out = <<R250del(session[s].arg)>>
               /\ Read(s) /\ session'[s].command = DELE
               /\ session'[s].arg = session[s].arg)
            => /\ session'[s].out
                    = <<R550file(session'[s].arg, session[s].current_path)>>
               /\ files' = files
               /\ session'[s].pc = "recv"]_vars

\* the second DELE of the file f, which the first one removed
C12_Witness ==
    \E s \in Sessions :
        /\ session[s].pc = "recv" /\ session[s].authenticated
        /\ session[s].command = DELE /\ session[s].arg = <<"f">>
        /\ session[s].out = <<R550file(<<"f">>, <<"/">>)>>
        /\ FileF \notin DOMAIN files

\* C13: a RETR or STOR whose data connection to the advertised address
\* cannot be opened replies 425 and nothing else, the session goes on reading
\* with its login and directory as they were, no byte is sent and no file is
\* created or changed.
C13_ConnectFailure425 ==
    [][\A s \in Sessions :
         (Read(s) /\ session[s].authenticated
            /\ session'[s].command \in {RETR, STOR}
            /\ session[s].client_info # NoInfo
            /\ session'[s].attempt \in {"refused", "raise"})
         => /\ session'[s].out = <<R425>>
            /\ session'[s].pc = "recv"
            /\ session'[s].authenticated
            /\ session'[s].current_path = session[s].current_path
            /\ session'[s].sent = <<>>
            /\ files' = files]_vars

\* the ten verbs of the protocol
Vocabulary == {OPTS, USER, PASS, QUIT, XPWD, CWD, DELE, PORT, RETR, STOR}

\* C14: a line whose verb is outside the vocabulary is answered 502 and
\* nothing else; login, username, directory, pending address and every file
\* stay as they were and the session goes on reading, logged in or not.
C14_UnknownVerbFrame ==
    [][\A s \in Sessions :
         (Read(s) /\ session'[s].command # None
            /\ session'[s].command \notin Vocabulary)
         => /\ session'[s].out = <<R502>>
            /\ session'[s].pc = "recv"
            /\ session'[s].authenticated = session[s].authenticated
            /\ session'[s].username = session[s].username
            /\ session'[s].password = session[s].password
            /\ session'[s].current_path = session[s].current_path
            /\ session'[s].client_info = session[s].client_info
            /\ files' = files
            /\ cwd' = cwd]_vars

\* LIST answered 502 in a logged-in session that is in /a with an address
\* pending
C14_Witness ==
    \E s \in Sessions :
        /\ session[s].pc = "recv" /\ session[s].command = LIST
        /\ session[s].out = <<R502>>
        /\ session[s].authenticated
        /\ session[s].current_path = <<"/","a">>
        /\ session[s].client_info # NoInfo

\* the virtual path of the directory that an argument starting with '/'
\* names from the server root
RootedVirtualPath(arg) ==
    LET navigating_path == Render(Resolve(join2(BASE_PATH, Drop(arg, 1))).node)
    IN  VirtualPath(IF OutsideBase(navigating_path) THEN BASE_PATH ELSE navigating_path)

\* C15: after a CWD with an argument that starts with '/' has succeeded,
\* the session's virtual path and the path in the 250 reply are the one the
\* argument names from the server root, whatever the directory the session
\* was in.
C15_AbsoluteFromAnywhere ==
    \A s \in Sessions :
        (session[s].pc = "recv" /\ session[s].command = CWD
           /\ startswith(session[s].arg, <<"/">>)
           /\ session[s].out # <<R550dir(session[s].arg)>>)
        => /\ session[s].current_path = RootedVirtualPath(session[s].arg)
           /\ session[s].out = <<R250cwd(RootedVirtualPath(session[s].arg))>>

C17_AddressOneShot ==
    \A s \in Sessions :
        (session[s].pc = "recv" /\ session[s].command \in {RETR, STOR}
           /\ session[s].attempt \in {"ok", "refused"})
        => session[s].client_info = NoInfo

\* C18: a CWD whose target is missing or is no directory is answered 550
\* alone and changes nothing: the session's virtual path, login and pending
\* address, the process's working directory and the files are as before,
\* and the session goes on reading.
C18_FailedCwdFrame ==
    [][\A s \in Sessions :
         (Read(s) /\ session[s].authenticated /\ session'[s].command = CWD
            /\ LET target == Resolve(AbsPath(session[s].current_path, session'[s].arg))
               IN  ~target.ok \/ target.node \notin Dirs)
         => /\ session'[s].out = <<R550dir(session'[s].arg)>>
            /\ session'[s].pc = "recv"
            /\ session'[s].current_path = session[s].current_path
            /\ session'[s].authenticated
            /\ session'[s].username = session[s].username
            /\ session'[s].client_info = session[s].client_info
            /\ cwd' = cwd
            /\ files' = files]_vars

\* CWD f refused in /a, where the session still is
C18_Witness ==
    \E s \in Sessions :
        /\ session[s].pc = "recv" /\ session[s].command = CWD
        /\ session[s].arg = <<"f">>
        /\ session[s].out = <<R550dir(<<"f">>)>>
        /\ session[s].current_path = <<"/","a">>

\* C19: when two sessions have both finished a STOR to one path, the file
\* holds all the bytes one of them received and nothing else.
C19_LastWriterWins ==
    \A s1, s2 \in Sessions :
        (s1 # s2 /\ Transferred(session[s1], STOR) /\ Transferred(session[s2], STOR)
           /\ Resolve(AbsPath(session[s1].current_path, session[s1].arg))
                = Resolve(AbsPath(session[s2].current_path, session[s2].arg)))
        => LET node == Resolve(AbsPath(session[s1].current_path, session[s1].arg)).node
           IN  /\ node \in DOMAIN files
               /\ files[node].data \in {session[s1].rcvd, session[s2].rcvd}

\* C20: a session that is logged in stays logged in until it is closed;
\* a USER sent after the login replaces the user name and is answered 331
\* alone without ending the login.
C20_LoginMonotonic ==
    [][\A s \in Sessions :
         /\ (session[s].pc # "closed" /\ session[s].authenticated
               /\ ~session'[s].authenticated)
            => session'[s].pc = "closed"
         /\ (Read(s) /\ session[s].authenticated /\ session'[s].command = USER)
            => /\ session'[s].username = session'[s].arg
               /\ session'[s].out = <<R331>>
               /\ session'[s].authenticated
               /\ session'[s].pc = "recv"]_vars

\* XPWD answered 257 after the logged-in session renamed its user to x
C20_Witness ==
    \E s \in Sessions :
        /\ session[s].pc = "recv" /\ session[s].authenticated
        /\ session[s].username = <<"x">>
        /\ session[s].command = XPWD
        /\ session[s].out = <<R257(session[s].current_path)>>

====
